---- MODULE Spec2Model ----
(***************************************************************************)
(* Model of ReferenceConverter (src/lib/converter/converters/types/        *)
(* reference.ts): conversion of type references and of anonymous type      *)
(* literals into Declaration Nodes and Type Nodes, run against a Context   *)
(* (scope, symbol registry, visit stack); and of Accordion, the component   *)
(* of the same file that animates a <details> element and persists its     *)
(* open state.                                                             *)
(***************************************************************************)
EXTENDS Integers, Sequences, FiniteSets, TLC

(***************************************************************************)
(* Bounds                                                                  *)
(***************************************************************************)
\* driver operations (root conversions, named declarations) per run
MaxRoots == 2
\* conversion runs (Contexts) in one behaviour
MaxRuns == 2
\* clicks on the accordions of one page
MaxClicks == 3

(***************************************************************************)
(* Absent values                                                           *)
(***************************************************************************)
NoSym == "none"
NoNode == "none"
NoId == 0
NoType == [tag |-> "None"]

(***************************************************************************)
(* The front end's symbol graph: symbols, their declarations (syntax       *)
(* nodes) and the types that refer to them.                                *)
(*   Foo, Bar, T  named symbols; T is `type T = { self: T }`               *)
(*   TL           the literal `{ self: T }` of T (declaration under dT)    *)
(*   A, B         mutually recursive literals; A is a function type        *)
(*   M            a literal with two declarations                          *)
(*   E            a literal whose declaration list is empty                *)
(*                (the types of TL and E carry a type argument)            *)
(*   N            a named symbol with no declarations                      *)
(*   X            a literal with a member whose conversion fails           *)
(***************************************************************************)
Symbols == {"Foo", "Bar", "T", "TL", "A", "B", "M", "E", "N", "X"}

Mem(n, t) == [name |-> n, type |-> t]

Sy(fl, ds) == [flags |-> fl, declarations |-> ds]

Sym ==
  [s \in Symbols |->
     CASE s = "Foo" -> Sy({}, <<"dFoo">>)
       [] s = "Bar" -> Sy({}, <<"dBar">>)
       [] s = "T"   -> Sy({}, <<"dT">>)
       [] s = "TL"  -> Sy({"TypeLiteral"}, <<"dTL">>)
       [] s = "A"   -> Sy({"TypeLiteral"}, <<"dA">>)
       [] s = "B"   -> Sy({"TypeLiteral"}, <<"dB">>)
       [] s = "M"   -> Sy({"ObjectLiteral"}, <<"dM1", "dM2">>)
       [] s = "E"   -> Sy({"TypeLiteral"}, <<>>)
       [] s = "N"   -> Sy({}, <<>>)
       [] s = "X"   -> Sy({"TypeLiteral"}, <<"dX">>)]

Decls == {"dFoo", "dBar", "dT", "dTL", "dA", "dB", "dM1", "dM2", "dX"}

De(k, s, p, ms) == [kind |-> k, symbol |-> s, parent |-> p, members |-> ms]

Decl ==
  [d \in Decls |->
     CASE d = "dFoo" -> De("ClassDeclaration", "Foo", "src", <<>>)
       [] d = "dBar" -> De("ClassDeclaration", "Bar", "src", <<>>)
       [] d = "dT"   -> De("TypeAliasDeclaration", "T", "src", <<>>)
       [] d = "dTL"  -> De("TypeLiteral", "TL", "dT", <<Mem("self", "tTL")>>)
       [] d = "dA"   -> De("FunctionType", "A", "dFoo", <<Mem("b", "tB")>>)
       [] d = "dB"   -> De("TypeLiteral", "B", "dBar", <<Mem("a", "tA")>>)
       [] d = "dM1"  -> De("ObjectLiteralExpression", "M", "dFoo",
                           <<Mem("a", "tStr")>>)
       [] d = "dM2"  -> De("FunctionType", "M", "dFoo",
                           <<Mem("m", "tM"), Mem("g", "tBarTL")>>)
       [] d = "dX"   -> De("TypeLiteral", "X", "dFoo", <<Mem("bad", "tBad")>>)]

Types == {"tNone", "tStr", "tFoo", "tBarFoo", "tBarTL", "tTL",
          "tA", "tB", "tM", "tE", "tN", "tX", "tBad"}

\* a type: its category flags, its symbol, the type arguments the checker
\* resolved for it and the type arguments written on its syntax node
Ty(fl, s, hasT, ta, hasN, na) ==
  [flags |-> fl, symbol |-> s,
   hasTypeArguments |-> hasT, typeArguments |-> ta,
   hasNodeArguments |-> hasN, nodeArguments |-> na]

Obj(s) == Ty({"ObjectType"}, s, FALSE, <<>>, FALSE, <<>>)

Type ==
  [t \in Types |->
     CASE t = "tNone"    -> Obj(NoSym)
       [] t = "tStr"     -> Ty({"String"}, NoSym, FALSE, <<>>, FALSE, <<>>)
       [] t = "tFoo"     -> Obj("Foo")
       [] t = "tBarFoo"  -> Ty({"ObjectType"}, "Bar", TRUE, <<"tFoo", "tStr">>,
                               TRUE, <<"tFoo">>)
       [] t = "tBarTL"   -> Ty({"ObjectType"}, "Bar", TRUE, <<"tTL">>,
                               TRUE, <<"tTL">>)
       [] t = "tTL"      -> Ty({"ObjectType"}, "TL", TRUE, <<"tStr">>,
                               TRUE, <<"tStr">>)
       [] t = "tA"       -> Obj("A")
       [] t = "tB"       -> Obj("B")
       [] t = "tM"       -> Obj("M")
       [] t = "tE"       -> Ty({"ObjectType"}, "E", TRUE, <<"tStr">>,
                               TRUE, <<"tStr">>)
       [] t = "tN"       -> Obj("N")
       [] t = "tX"       -> Obj("X")
       [] t = "tBad"     -> Ty({"Broken"}, NoSym, FALSE, <<>>, FALSE, <<>>)]

\* the type reference nodes a driver hands to convertNode as roots
NodeRoots == {"tNone", "tFoo", "tBarFoo", "tTL", "tA", "tM", "tE", "tN", "tX"}

\* the types a driver hands to convertType as roots
TypeRoots == {"tNone", "tBarFoo", "tTL", "tE"}

\* the named symbols the declaration walker may declare
NamedSymbols == {"Foo", "T"}


(***************************************************************************)
(* State                                                                   *)
(***************************************************************************)
VARIABLES
  nodes,       \* the Declaration Nodes of this run, by id
  nextId,      \* the id the next Declaration Node gets
  project,     \* the id of the root node of this run
  registry,    \* Context: symbol -> id of the node registered against it
  scope,       \* Context: the active scope (a node id)
  visitStack,  \* Context: the declarations being converted
  events,      \* the create-declaration notifications fired, in order
  stack,       \* the active calls, innermost first
  ret,         \* the Type Node the last finished call returned
  raising,     \* a failure is propagating up the call chain
  failed,      \* a failure reached the driver: the run is aborted
  roots,       \* the driver's operations of this run, in order
  results,     \* what each root conversion of this run returned
  done,        \* every finished call of this run, with its entry and exit Context
  run,         \* which run (Context) this is
  prev         \* the operations and the id-free result of the last finished run

vars == <<nodes, nextId, project, registry, scope, visitStack, events, stack,
          ret, raising, failed, roots, results, done, run, prev>>

(***************************************************************************)
(* State of the Accordion components of a page                             *)
(***************************************************************************)
\* the accordions of the page, and the storage keys their headings give
Accordions == {1, 2}

Keys == {"k1", "k2"}

\* storage.getItem: null, or the string stored under the key
NoItem == "absent"

Items == {NoItem, "", "true", "false", "yes"}

VARIABLES
  accs,     \* each accordion: its element, its fields and its history
  storage,  \* the storage utility: key -> item
  accKey,   \* this.key of each accordion
  clicks    \* clicks delivered so far

accVars == <<accs, storage, accKey, clicks>>

allVars == <<vars, accVars>>

\* this.animation: undefined, or the running height animation with the
\* options it was started with
NoAnimation == [running |-> FALSE, opening |-> FALSE, duration |-> 0]

Animation(opening, duration) ==
  [running |-> TRUE, opening |-> opening, duration |-> duration]

\* an accordion before its constructor ran: the <details> element with its
\* open attribute; started, finished, last and cause record its history
\* (animations started and finished, the direction of the last finished
\* one, what started the running one and the open state it started from)
Element(open) ==
  [built |-> FALSE, open |-> open, animation |-> NoAnimation,
   height |-> "", overflow |-> "", icon |-> "",
   started |-> 0, finished |-> 0, last |-> "none", cause |-> "none",
   before |-> open]

\* a page without accordions
NoAccordions ==
  /\ accs = [a \in Accordions |-> Element(FALSE)]
  /\ storage = [k \in Keys |-> NoItem]
  /\ accKey = [a \in Accordions |-> "k1"]
  /\ clicks = MaxClicks

(***************************************************************************)
(* Type Nodes                                                              *)
(***************************************************************************)
IntrinsicType(n) == [tag |-> "Intrinsic", name |-> n]

ReflectionType(id) == [tag |-> "ReflectionType", declaration |-> id]

\* a Reference Type Node: resolved (target is a node id) or pending (the
\* symbol is kept); typeArguments is unset until hasTypeArguments
ReferenceType(s, id) ==
  [tag |-> "Reference", symbol |-> s, resolved |-> id # NoId, target |-> id,
   hasTypeArguments |-> FALSE, typeArguments |-> <<>>]

\* Reference Resolution: a registry hit stores the registered node's id,
\* a miss leaves the reference pending on the symbol
createReferenceType(reg, s) == ReferenceType(s, reg[s])

\* Context.registerReflection: the registry keeps at most one node per
\* symbol, the first one registered
registerReflection(reg, id, s) ==
  IF reg[s] = NoId THEN [reg EXCEPT ![s] = id] ELSE reg

(***************************************************************************)
(* ReferenceConverter: the pure parts                                      *)
(***************************************************************************)
\* the Context a predicate or a conversion is handed
Context == [scope |-> scope, visitStack |-> visitStack, registry |-> registry]

\* (an applicability test that answers only outside any declaration)
supportsNodeAtTopLevel(context, node, t) ==
  "ObjectType" \in Type[t].flags /\ context.visitStack = <<>>

\* return !!(type.flags & ts.TypeFlags.ObjectType)
supportsNode(context, node, t) == "ObjectType" \in Type[t].flags

supportsType(context, t) == "ObjectType" \in Type[t].flags

\* the registry asks the predicate of the entry point it is about to use
Supports(via, t) ==
  IF via = "node" THEN supportsNode(Context, t, t) ELSE supportsType(Context, t)

\* type.symbol.flags & TypeLiteral || type.symbol.flags & ObjectLiteral
IsLiteralSymbol(s) ==
  "TypeLiteral" \in Sym[s].flags \/ "ObjectLiteral" \in Sym[s].flags

\* the branch convertNode takes: if (!type.symbol) ... else if (literal
\* flags) ... else createReferenceType
convertNodeBranch(t) ==
  CASE Type[t].symbol = NoSym -> "object"
    [] Type[t].symbol # NoSym /\ IsLiteralSymbol(Type[t].symbol) -> "literal"
    [] OTHER -> "reference"

\* (a convertType that tests for type arguments before the literal flags)
convertTypeBranchArgumentsFirst(t) ==
  CASE Type[t].symbol = NoSym -> "object"
    [] Type[t].symbol # NoSym /\ Type[t].hasTypeArguments -> "reference"
    [] Type[t].symbol # NoSym /\ ~Type[t].hasTypeArguments
         /\ IsLiteralSymbol(Type[t].symbol) -> "literal"
    [] OTHER -> "reference"

\* the branch convertType takes
convertTypeBranch(t) ==
  CASE Type[t].symbol = NoSym -> "object"
    [] Type[t].symbol # NoSym /\ IsLiteralSymbol(Type[t].symbol) -> "literal"
    [] OTHER -> "reference"

Branch(via, t) ==
  IF via = "node" THEN convertNodeBranch(t) ELSE convertTypeBranch(t)

OnVisitStack(d, vs) == \E k \in 1..Len(vs) : vs[k] = d

\* (a cycle check that looks at the symbol's first declaration only)
CycleIndexesFirstOnly(s, vs) ==
  {k \in 1..Len(Sym[s].declarations) :
     k = 1 /\ OnVisitStack(Sym[s].declarations[k], vs)}

\* (a cycle check that looks at the innermost visit entry only)
CycleIndexesTopOnly(s, vs) ==
  {k \in 1..Len(Sym[s].declarations) :
     vs # <<>> /\ vs[Len(vs)] = Sym[s].declarations[k]}

\* the indexes of the symbol's declarations that are on the visit stack
CycleIndexes(s, vs) ==
  {k \in 1..Len(Sym[s].declarations) : OnVisitStack(Sym[s].declarations[k], vs)}

\* (a short circuit decided by the symbol's first declaration, on the visit
\* stack or not)
CycleDeclarationFirstDeclared(s, vs) == Sym[s].declarations[1]

\* the declaration the loop of convert stops at: the first, in declaration
\* order, that is on the visit stack
CycleDeclaration(s, vs) ==
  LET idx == CycleIndexes(s, vs)
      first == CHOOSE k \in idx : \A j \in idx : k <= j
  IN Sym[s].declarations[first]

\* (a short circuit that always targets the declaration's own symbol)
CycleTargetOwnSymbol(d) == Decl[d].symbol

\* the symbol a short-circuited self-reference targets
CycleTarget(d) ==
  IF Decl[d].kind = "TypeLiteral" \/ Decl[d].kind = "ObjectLiteralExpression"
    THEN Decl[Decl[d].parent].symbol
    ELSE Decl[d].symbol

\* the synthetic Declaration Node of convert; symbol is the symbol it is
\* passed to registerReflection with
\* (a synthetic node that is not attached to the active scope)
NewDeclarationOrphan(id, sc, s) ==
  [kind |-> "TypeLiteral", name |-> "__type", parent |-> NoId,
   children |-> <<>>, type |-> NoType, symbol |-> s]

\* (a synthetic node whose name is derived from its id)
NewDeclarationNamedById(id, sc, s) ==
  [kind |-> "TypeLiteral",
   name |-> IF id % 2 = 0 THEN "__type" ELSE "__type1", parent |-> sc,
   children |-> <<>>, type |-> NoType, symbol |-> s]

NewDeclaration(id, sc, s) ==
  [kind |-> "TypeLiteral", name |-> "__type", parent |-> sc,
   children |-> <<>>, type |-> NoType, symbol |-> s]

\* (a notification that drops the syntax node)
ConvertTriggerWithoutNode(ev, id, node) ==
  Append(ev, [node |-> id, syntax |-> NoNode])

\* context.trigger(EVENT_CREATE_DECLARATION, declaration, node)
ConvertTrigger(ev, id, node) == Append(ev, [node |-> id, syntax |-> node])

\* (withScope entered with the scope that is already active)
ConvertScopeKept(id, sc) == sc

\* the scope handed to context.withScope
ConvertScope(id, sc) == id

\* the type arguments convertNode / convertType read
SourceHasArguments(via, t) ==
  IF via = "node" THEN Type[t].hasNodeArguments ELSE Type[t].hasTypeArguments

\* (convertNode reading the type's arguments instead of the syntax node's)
SourceArgumentsOfType(via, t) == Type[t].typeArguments

SourceArguments(via, t) ==
  IF via = "node" THEN Type[t].nodeArguments ELSE Type[t].typeArguments

\* result.typeArguments = arguments.map(convert)
AttachArguments(result, acc) ==
  [result EXCEPT !.hasTypeArguments = TRUE, !.typeArguments = acc]

\* the registry's default conversion of a type no converter supports
DefaultConversion(t) ==
  IntrinsicType(IF "String" \in Type[t].flags THEN "string" ELSE "unknown")


(***************************************************************************)
(* Calls.  A frame of `stack` is one active call; `at` is the Context the  *)
(* call was entered with (recorded when the call finishes, in `done`).     *)
(***************************************************************************)
Snapshot ==
  [scope |-> scope, visitStack |-> visitStack, nextId |-> nextId,
   nevents |-> Len(events), registry |-> registry]

\* ReferenceConverter.convertNode (via = "node") or convertType ("type")
RefFrame(via, t, snap) ==
  [kind |-> "ref", via |-> via, type |-> t,
   node |-> IF via = "node" THEN t ELSE NoNode,
   pc |-> "start", i |-> 1, result |-> NoType, acc |-> <<>>, at |-> snap]

\* ReferenceConverter.convert
ConvertFrame(s, node) ==
  [kind |-> "convert", symbol |-> s, node |-> node, pc |-> "check", i |-> 1,
   declaration |-> NoId, oldScope |-> NoId, at |-> Snapshot]

\* the nested node conversion of one declaration of a literal symbol
DeclFrame(d, snap) ==
  [kind |-> "decl", d |-> d, pc |-> "enter", i |-> 1, member |-> NoId,
   oldScope |-> NoId, at |-> snap]

Finished(f, v, outcome, sc, vs, nid, nev) ==
  [frame |-> f, ret |-> v, outcome |-> outcome, scope |-> sc,
   visitStack |-> vs, nextId |-> nid, nevents |-> nev, registry |-> registry]

Top == Head(stack)

Running(kind, pc) ==
  /\ ~raising
  /\ stack # <<>>
  /\ Top.kind = kind
  /\ Top.pc = pc

\* the innermost call returns v, leaving the Context with scope sc and
\* visit stack vs; a root call's value goes to the driver
ReturnFrom(v, sc, vs) ==
  /\ stack' = Tail(stack)
  /\ ret' = v
  /\ scope' = sc
  /\ visitStack' = vs
  /\ done' = Append(done, Finished(Top, v, "return", sc, vs, nextId, Len(events)))
  /\ results' = IF Tail(stack) = <<>> THEN Append(results, v) ELSE results

ProjectNode ==
  [kind |-> "Project", name |-> "project", parent |-> NoId, children |-> <<>>,
   type |-> NoType, symbol |-> NoSym]

\* a member (or named declaration) node created by the declaration walker
ChildNode(kind, name, sc, s, ty) ==
  [kind |-> kind, name |-> name, parent |-> sc, children |-> <<>>,
   type |-> ty, symbol |-> s]

\* the node `id` created under the scope sc and appended to its children
WithChild(ns, sc, id, n) ==
  [ns EXCEPT ![sc].children = Append(@, id)] @@ (id :> n)

(***************************************************************************)
(* The id-free form of a run's result: node kinds, names and children      *)
(* order, and the kinds of the Type Nodes.                                 *)
(***************************************************************************)
RECURSIVE CanonNode(_), CanonType(_)

CanonType(t) ==
  CASE t.tag = "ReflectionType" ->
         [tag |-> t.tag, declaration |-> CanonNode(t.declaration)]
    [] t.tag = "Reference" ->
         [tag |-> t.tag, symbol |-> t.symbol, resolved |-> t.resolved,
          hasTypeArguments |-> t.hasTypeArguments,
          typeArguments |->
            [k \in 1..Len(t.typeArguments) |-> CanonType(t.typeArguments[k])]]
    [] OTHER -> t

CanonNode(id) ==
  [kind |-> nodes[id].kind, name |-> nodes[id].name,
   children |->
     [k \in 1..Len(nodes[id].children) |-> CanonNode(nodes[id].children[k])],
   type |-> CanonType(nodes[id].type)]

CanonRun ==
  [tree |-> CanonNode(project),
   results |-> [k \in 1..Len(results) |-> CanonType(results[k])],
   events |-> [k \in 1..Len(events) |->
                 [kind |-> nodes[events[k].node].kind,
                  name |-> nodes[events[k].node].name,
                  syntax |-> events[k].syntax]]]

(***************************************************************************)
(* Init: a fresh Context over an empty project                             *)
(***************************************************************************)
ConverterInit ==
  /\ nextId = 2
  /\ project = 1
  /\ nodes = (1 :> ProjectNode)
  /\ registry = [s \in Symbols |-> NoId]
  /\ scope = 1
  /\ visitStack = <<>>
  /\ events = <<>>
  /\ stack = <<>>
  /\ ret = NoType
  /\ raising = FALSE
  /\ failed = FALSE
  /\ roots = <<>>
  /\ results = <<>>
  /\ done = <<>>
  /\ run = 1
  /\ prev = [roots |-> <<>>, canon |-> NoType]

Init == ConverterInit /\ NoAccordions

(***************************************************************************)
(* The driver                                                              *)
(***************************************************************************)
Idle == stack = <<>> /\ ~raising

\* a second run repeats the operations of the run before it
CanStart(op) ==
  /\ Idle
  /\ ~failed
  /\ Len(roots) < MaxRoots
  /\ run > 1 => /\ Len(roots) < Len(prev.roots)
                /\ prev.roots[Len(roots) + 1] = op

Op(name, arg) == [op |-> name, arg |-> arg]

\* the registry hands a type reference node to convertNode
StartNode(t) ==
  /\ supportsNode(Context, t, t)
  /\ CanStart(Op("convertNode", t))
  /\ roots' = Append(roots, Op("convertNode", t))
  /\ stack' = <<RefFrame("node", t, Snapshot)>>
  /\ ret' = NoType
  /\ UNCHANGED <<accVars, nodes, nextId, project, registry, scope, visitStack, events,
                 raising, failed, results, done, run, prev>>

\* the registry hands a type to convertType
StartType(t) ==
  /\ supportsType(Context, t)
  /\ CanStart(Op("convertType", t))
  /\ roots' = Append(roots, Op("convertType", t))
  /\ stack' = <<RefFrame("type", t, Snapshot)>>
  /\ ret' = NoType
  /\ UNCHANGED <<accVars, nodes, nextId, project, registry, scope, visitStack, events,
                 raising, failed, results, done, run, prev>>

\* the declaration walker creates and registers the node of a named symbol
DeclareNamed(s) ==
  /\ CanStart(Op("declare", s))
  /\ registry[s] = NoId
  /\ roots' = Append(roots, Op("declare", s))
  /\ nodes' = WithChild(nodes, scope, nextId,
                        ChildNode("Class", s, scope, s, NoType))
  /\ nextId' = nextId + 1
  /\ registry' = registerReflection(registry, nextId, s)
  /\ events' = Append(events, [node |-> nextId, syntax |-> Sym[s].declarations[1]])
  /\ UNCHANGED <<accVars, project, scope, visitStack, stack, ret, raising, failed,
                 results, done, run, prev>>

\* the run ends; the next one starts with a fresh Context
Reset ==
  /\ Idle
  /\ run < MaxRuns
  /\ prev' = [roots |-> roots, canon |-> CanonRun]
  /\ run' = run + 1
  /\ nodes' = (nextId :> ProjectNode)
  /\ project' = nextId
  /\ nextId' = nextId + 1
  /\ registry' = [s \in Symbols |-> NoId]
  /\ scope' = nextId
  /\ visitStack' = <<>>
  /\ events' = <<>>
  /\ ret' = NoType
  /\ failed' = FALSE
  /\ roots' = <<>>
  /\ results' = <<>>
  /\ done' = <<>>
  /\ UNCHANGED <<accVars, stack, raising>>


(***************************************************************************)
(* ReferenceConverter.convertNode / convertType                            *)
(***************************************************************************)
\* if (!type.symbol) return new IntrinsicType('Object')
RefNoSymbol ==
  /\ Running("ref", "start")
  /\ Branch(Top.via, Top.type) = "object"
  /\ ReturnFrom(IntrinsicType("Object"), scope, visitStack)
  /\ UNCHANGED <<accVars, nodes, nextId, project, registry, events, raising, failed,
                 roots, run, prev>>

\* else if (flags & TypeLiteral || flags & ObjectLiteral)
\*   return this.convert(context, type.symbol, node)
RefLiteral ==
  /\ Running("ref", "start")
  /\ Branch(Top.via, Top.type) = "literal"
  /\ stack' = <<ConvertFrame(Type[Top.type].symbol, Top.node),
                [Top EXCEPT !.pc = "lit"]>> \o Tail(stack)
  /\ UNCHANGED <<accVars, nodes, nextId, project, registry, scope, visitStack, events,
                 ret, raising, failed, roots, results, done, run, prev>>

\* var result = createReferenceType(context, type.symbol)
RefNamed ==
  /\ Running("ref", "start")
  /\ Branch(Top.via, Top.type) = "reference"
  /\ stack' = <<[Top EXCEPT
                   !.result = createReferenceType(registry, Type[Top.type].symbol),
                   !.pc = IF SourceHasArguments(Top.via, Top.type)
                            THEN "args" ELSE "plain"]>> \o Tail(stack)
  /\ UNCHANGED <<accVars, nodes, nextId, project, registry, scope, visitStack, events,
                 ret, raising, failed, roots, results, done, run, prev>>

\* typeArguments.map: the next argument goes through the registry to this
\* converter
RefArgCall ==
  /\ Running("ref", "args")
  /\ Top.i <= Len(SourceArguments(Top.via, Top.type))
  /\ Supports(Top.via, SourceArguments(Top.via, Top.type)[Top.i])
  /\ stack' = <<RefFrame(Top.via, SourceArguments(Top.via, Top.type)[Top.i],
                         Snapshot),
                [Top EXCEPT !.pc = "argwait"]>> \o Tail(stack)
  /\ UNCHANGED <<accVars, nodes, nextId, project, registry, scope, visitStack, events,
                 ret, raising, failed, roots, results, done, run, prev>>

\* typeArguments.map: the next argument is of a type no converter supports
RefArgDefault ==
  /\ Running("ref", "args")
  /\ Top.i <= Len(SourceArguments(Top.via, Top.type))
  /\ ~Supports(Top.via, SourceArguments(Top.via, Top.type)[Top.i])
  /\ stack' = <<[Top EXCEPT
                   !.acc = Append(@, DefaultConversion(
                              SourceArguments(Top.via, Top.type)[Top.i])),
                   !.i = @ + 1]>> \o Tail(stack)
  /\ UNCHANGED <<accVars, nodes, nextId, project, registry, scope, visitStack, events,
                 ret, raising, failed, roots, results, done, run, prev>>

\* typeArguments.map: the conversion of an argument returned
RefArgReturned ==
  /\ Running("ref", "argwait")
  /\ stack' = <<[Top EXCEPT !.acc = Append(@, ret), !.i = @ + 1,
                            !.pc = "args"]>> \o Tail(stack)
  /\ ret' = NoType
  /\ UNCHANGED <<accVars, nodes, nextId, project, registry, scope, visitStack, events,
                 raising, failed, roots, results, done, run, prev>>

\* result.typeArguments = ...; return result
RefReturnArgs ==
  /\ Running("ref", "args")
  /\ Top.i > Len(SourceArguments(Top.via, Top.type))
  /\ ReturnFrom(AttachArguments(Top.result, Top.acc), scope, visitStack)
  /\ UNCHANGED <<accVars, nodes, nextId, project, registry, events, raising, failed,
                 roots, run, prev>>

\* return result (no type arguments at the source)
RefReturnPlain ==
  /\ Running("ref", "plain")
  /\ ReturnFrom(Top.result, scope, visitStack)
  /\ UNCHANGED <<accVars, nodes, nextId, project, registry, events, raising, failed,
                 roots, run, prev>>

\* return this.convert(...): what convert returned
RefReturnLiteral ==
  /\ Running("ref", "lit")
  /\ ReturnFrom(ret, scope, visitStack)
  /\ UNCHANGED <<accVars, nodes, nextId, project, registry, events, raising, failed,
                 roots, run, prev>>

(***************************************************************************)
(* ReferenceConverter.convert                                              *)
(***************************************************************************)
\* a declaration of the symbol is on the visit stack: return a reference
ConvertCycle ==
  /\ Running("convert", "check")
  /\ CycleIndexes(Top.symbol, visitStack) # {}
  /\ ReturnFrom(createReferenceType(registry,
                  CycleTarget(CycleDeclaration(Top.symbol, visitStack))),
                scope, visitStack)
  /\ UNCHANGED <<accVars, nodes, nextId, project, registry, events, raising, failed,
                 roots, run, prev>>

\* new DeclarationReflection, registerReflection, trigger, withScope
ConvertCreate ==
  /\ Running("convert", "check")
  /\ CycleIndexes(Top.symbol, visitStack) = {}
  /\ nodes' = nodes @@ (nextId :> NewDeclaration(nextId, scope, Top.symbol))
  /\ nextId' = nextId + 1
  /\ registry' = registerReflection(registry, nextId, Top.symbol)
  /\ events' = ConvertTrigger(events, nextId, Top.node)
  /\ scope' = ConvertScope(nextId, scope)
  /\ stack' = <<[Top EXCEPT !.declaration = nextId, !.oldScope = scope,
                            !.pc = "each", !.i = 1]>> \o Tail(stack)
  /\ UNCHANGED <<accVars, project, visitStack, ret, raising, failed, roots, results,
                 done, run, prev>>

\* symbol.declarations.forEach((node) => convertNode(context, node))
ConvertEach ==
  /\ Running("convert", "each")
  /\ Top.i <= Len(Sym[Top.symbol].declarations)
  /\ stack' = <<DeclFrame(Sym[Top.symbol].declarations[Top.i], Snapshot),
                [Top EXCEPT !.i = @ + 1]>> \o Tail(stack)
  /\ UNCHANGED <<accVars, nodes, nextId, project, registry, scope, visitStack, events,
                 ret, raising, failed, roots, results, done, run, prev>>

\* withScope releases the scope; return new ReflectionType(declaration)
ConvertReturn ==
  /\ Running("convert", "each")
  /\ Top.i > Len(Sym[Top.symbol].declarations)
  /\ ReturnFrom(ReflectionType(Top.declaration), Top.oldScope, visitStack)
  /\ UNCHANGED <<accVars, nodes, nextId, project, registry, events, raising, failed,
                 roots, run, prev>>


(***************************************************************************)
(* The nested node conversion of a declaration (convertNode of ../node):   *)
(* the declaration is on the visit stack while its members are converted;  *)
(* each member becomes a child of the active scope and is the scope while  *)
(* its type is converted.                                                  *)
(***************************************************************************)
Members(d) == Decl[d].members

DeclEnter ==
  /\ Running("decl", "enter")
  /\ visitStack' = Append(visitStack, Top.d)
  /\ stack' = <<[Top EXCEPT !.pc = "members"]>> \o Tail(stack)
  /\ UNCHANGED <<accVars, nodes, nextId, project, registry, scope, events, ret, raising,
                 failed, roots, results, done, run, prev>>

\* a member whose type this converter supports
DeclMemberCall ==
  /\ Running("decl", "members")
  /\ Top.i <= Len(Members(Top.d))
  /\ Supports("node", Members(Top.d)[Top.i].type)
  /\ nodes' = WithChild(nodes, scope, nextId,
                ChildNode("Property", Members(Top.d)[Top.i].name, scope, NoSym,
                          NoType))
  /\ nextId' = nextId + 1
  /\ events' = Append(events, [node |-> nextId, syntax |-> Top.d])
  /\ scope' = nextId
  /\ stack' = <<RefFrame("node", Members(Top.d)[Top.i].type,
                         [scope |-> nextId, visitStack |-> visitStack,
                          nextId |-> nextId + 1, nevents |-> Len(events) + 1,
                          registry |-> registry]),
                [Top EXCEPT !.member = nextId, !.oldScope = scope,
                            !.pc = "memwait"]>> \o Tail(stack)
  /\ UNCHANGED <<accVars, project, registry, visitStack, ret, raising, failed, roots,
                 results, done, run, prev>>

\* a member whose conversion, by another converter, fails
Fails(t) == "Broken" \in Type[t].flags

DeclMemberFail ==
  /\ Running("decl", "members")
  /\ Top.i <= Len(Members(Top.d))
  /\ Fails(Members(Top.d)[Top.i].type)
  /\ raising' = TRUE
  /\ UNCHANGED <<accVars, nodes, nextId, project, registry, scope, visitStack, events,
                 stack, ret, failed, roots, results, done, run, prev>>

\* a member whose type goes to the registry's default conversion
DeclMemberDefault ==
  /\ Running("decl", "members")
  /\ Top.i <= Len(Members(Top.d))
  /\ ~Supports("node", Members(Top.d)[Top.i].type)
  /\ ~Fails(Members(Top.d)[Top.i].type)
  /\ nodes' = WithChild(nodes, scope, nextId,
                ChildNode("Property", Members(Top.d)[Top.i].name, scope, NoSym,
                          DefaultConversion(Members(Top.d)[Top.i].type)))
  /\ nextId' = nextId + 1
  /\ events' = Append(events, [node |-> nextId, syntax |-> Top.d])
  /\ stack' = <<[Top EXCEPT !.i = @ + 1]>> \o Tail(stack)
  /\ UNCHANGED <<accVars, project, registry, scope, visitStack, ret, raising, failed,
                 roots, results, done, run, prev>>

\* the member's type came back: set it, release the scope
DeclMemberReturned ==
  /\ Running("decl", "memwait")
  /\ nodes' = [nodes EXCEPT ![Top.member].type = ret]
  /\ scope' = Top.oldScope
  /\ ret' = NoType
  /\ stack' = <<[Top EXCEPT !.i = @ + 1, !.pc = "members"]>> \o Tail(stack)
  /\ UNCHANGED <<accVars, nextId, project, registry, visitStack, events, raising,
                 failed, roots, results, done, run, prev>>

\* all members converted: the declaration leaves the visit stack
DeclLeave ==
  /\ Running("decl", "members")
  /\ Top.i > Len(Members(Top.d))
  /\ ReturnFrom(NoType, scope, SubSeq(visitStack, 1, Len(visitStack) - 1))
  /\ UNCHANGED <<accVars, nodes, nextId, project, registry, events, raising, failed,
                 roots, run, prev>>

(***************************************************************************)
(* A failure propagates: each call it passes through releases what it      *)
(* acquired (withScope the scope, the node conversion its visit entry).    *)
(***************************************************************************)
ReleasedScope(f) ==
  IF (f.kind = "convert" /\ f.pc = "each") \/ (f.kind = "decl" /\ f.pc = "memwait")
    THEN f.oldScope
    ELSE scope

ReleasedVisitStack(f) ==
  IF f.kind = "decl" /\ f.pc # "enter"
    THEN SubSeq(visitStack, 1, Len(visitStack) - 1)
    ELSE visitStack

Unwind ==
  /\ raising
  /\ stack # <<>>
  /\ stack' = Tail(stack)
  /\ scope' = ReleasedScope(Top)
  /\ visitStack' = ReleasedVisitStack(Top)
  /\ done' = Append(done, Finished(Top, NoType, "raise", ReleasedScope(Top),
                                   ReleasedVisitStack(Top), nextId, Len(events)))
  /\ raising' = (Tail(stack) # <<>>)
  /\ failed' = (Tail(stack) = <<>>)
  /\ results' = IF Tail(stack) = <<>>
                  THEN Append(results, [tag |-> "Raised"]) ELSE results
  /\ ret' = NoType
  /\ UNCHANGED <<accVars, nodes, nextId, project, registry, events, roots, run, prev>>

(***************************************************************************)
(* Specification                                                           *)
(***************************************************************************)
Step ==
  \/ RefNoSymbol \/ RefLiteral \/ RefNamed
  \/ RefArgCall \/ RefArgDefault \/ RefArgReturned
  \/ RefReturnArgs \/ RefReturnPlain \/ RefReturnLiteral
  \/ ConvertCycle \/ ConvertCreate \/ ConvertEach
  \/ ConvertReturn
  \/ DeclEnter \/ DeclMemberCall \/ DeclMemberDefault \/ DeclMemberFail
  \/ DeclMemberReturned
  \/ DeclLeave
  \/ Unwind

Drive ==
  \/ \E t \in NodeRoots : StartNode(t)
  \/ \E t \in TypeRoots : StartType(t)
  \/ \E s \in NamedSymbols : DeclareNamed(s)
  \/ Reset

Next == Step \/ Drive

Spec == Init /\ [][Next]_allVars

\* a conversion is synchronous: once started it runs to its end
FairSpec == Spec /\ WF_allVars(Step)

(***************************************************************************)
(* Accordion.  A method is an operator on w, the accordion's element and   *)
(* fields (w.el) with the item stored under its key (w.item), giving w     *)
(* after the call.                                                         *)
(***************************************************************************)
\* fromLocalStorage ? fromLocalStorage === "true" : this.el.open
fromLocalStorage(w) ==
  IF w.item # NoItem /\ w.item # "" THEN w.item = "true" ELSE w.el.open

\* value.toString()
BoolString(value) == IF value THEN "true" ELSE "false"

getIconRotation(open) == IF open THEN "rotate(0deg)" ELSE "rotate(-90deg)"

\* el.open is toggled and put back; the height is that of the state found
calculateHeights(w) ==
  [w EXCEPT !.el.height = IF w.el.open THEN "expanded" ELSE "collapsed"]

\* if (this.animation) return; this.animation = this.el.animate(...)
animate(w, opening, duration) ==
  IF w.el.animation.running
    THEN w
    ELSE [w EXCEPT !.el.animation = Animation(opening, duration),
                   !.el.started = @ + 1]

expand(w, animated) ==
  animate([w EXCEPT !.el.open = TRUE], TRUE, IF animated THEN 300 ELSE 0)

collapse(w, animated) ==
  animate(w, FALSE, IF animated THEN 300 ELSE 0)

toggleVisibility(w) ==
  LET h == [w EXCEPT !.el.overflow = "hidden"]
  IN IF ~h.el.open THEN expand(h, TRUE) ELSE collapse(h, TRUE)

\* (a handleValueChange that synchronizes whether or not anything changed)
handleValueChangeAlways(w, force) ==
  IF fromLocalStorage(w) THEN expand(w, FALSE) ELSE collapse(w, FALSE)

handleValueChange(w, force) ==
  IF fromLocalStorage(w) = w.el.open /\ ~force
    THEN w
    ELSE IF fromLocalStorage(w) THEN expand(w, FALSE) ELSE collapse(w, FALSE)

setLocalStorage(w, value, force) ==
  IF fromLocalStorage(w) = value /\ ~force
    THEN w
    ELSE handleValueChange([w EXCEPT !.item = BoolString(value),
                                     !.el.open = value], force)

\* (an animationEnd that does not persist the state)
animationEndWithoutStorage(w, isOpen) ==
  [w EXCEPT !.el.open = isOpen,
            !.el.animation = NoAnimation,
            !.el.height = "auto",
            !.el.overflow = "visible"]

animationEnd(w, isOpen) ==
  setLocalStorage([w EXCEPT !.el.open = isOpen,
                            !.el.animation = NoAnimation,
                            !.el.height = "auto",
                            !.el.overflow = "visible"], isOpen, FALSE)

\* calculateHeights; setLocalStorage(fromLocalStorage(), true); the click
\* listener; the icon's rotation
constructor(w) ==
  LET c == calculateHeights(w)
      s == setLocalStorage(c, fromLocalStorage(c), TRUE)
  IN [s EXCEPT !.el.built = TRUE, !.el.icon = getIconRotation(s.el.open)]

\* the accordion a as a method finds it
Working(a) == [el |-> accs[a], item |-> storage[accKey[a]]]

\* what started the animation running after a handler, if the handler
\* started one
Cause(a, w, what) ==
  [w EXCEPT !.el.cause = IF w.el.started > accs[a].started THEN what ELSE @,
            !.el.before = IF w.el.started > accs[a].started
                            THEN accs[a].open ELSE @]

Commit(a, w) ==
  /\ accs' = [accs EXCEPT ![a] = w.el]
  /\ storage' = [storage EXCEPT ![accKey[a]] = w.item]

\* a page with its <details> elements, before any Accordion is constructed:
\* what earlier visits left in storage, and which headings coincide
PageLoaded ==
  /\ accs \in [Accordions -> {Element(TRUE), Element(FALSE)}]
  /\ storage \in [Keys -> Items]
  /\ accKey \in {k \in [Accordions -> Keys] : k[1] = "k1"}
  /\ clicks = 0

AccInit == ConverterInit /\ PageLoaded

\* new Accordion(options)
Construct(a) ==
  /\ ~accs[a].built
  /\ Commit(a, Cause(a, constructor(Working(a)), "constructor"))
  /\ UNCHANGED <<vars, accKey, clicks>>

\* a click on the summary: toggleVisibility
Click(a) ==
  /\ accs[a].built
  /\ clicks < MaxClicks
  /\ Commit(a, Cause(a, toggleVisibility(Working(a)), "click"))
  /\ clicks' = clicks + 1
  /\ UNCHANGED <<vars, accKey>>

\* the finish event of the running animation: animationEnd(opening); the
\* icon's animation, of the same duration, finishes with it
Finish(a) ==
  /\ accs[a].animation.running
  /\ LET opening == accs[a].animation.opening
         w == Cause(a, animationEnd(Working(a), opening), "finish")
     IN Commit(a, [w EXCEPT
                     !.el.icon = getIconRotation(opening),
                     !.el.finished = @ + 1,
                     !.el.last = IF opening THEN "opening" ELSE "closing",
                     !.el.cause = IF w.el.animation.running THEN @ ELSE "none"])
  /\ UNCHANGED <<vars, accKey, clicks>>

AccNext ==
  \/ \E a \in Accordions : Construct(a)
  \/ \E a \in Accordions : Click(a)
  \/ \E a \in Accordions : Finish(a)

AccSpec == AccInit /\ [][AccNext]_allVars

\* a running animation finishes and its finish event is delivered
AccFairSpec == AccSpec /\ \A a \in Accordions : WF_allVars(Finish(a))


(***************************************************************************)
(* What the properties below speak about                                   *)
(***************************************************************************)
Calls == {done[k] : k \in 1..Len(done)}

ActiveFrames == {stack[k] : k \in 1..Len(stack)}

Range(q) == {q[k] : k \in 1..Len(q)}

\* the nodes created between two values of the id counter
CreatedBetween(lo, hi) == {n \in DOMAIN nodes : lo <= n /\ n < hi}

\* the types a type leads to: its type arguments and, through its symbol's
\* declarations, the types of their members
TypeSuccessors(t) ==
  Range(Type[t].typeArguments) \cup Range(Type[t].nodeArguments) \cup
  (IF Type[t].symbol = NoSym THEN {}
   ELSE UNION {{m.type : m \in Range(Decl[d].members)} :
                d \in Range(Sym[Type[t].symbol].declarations)})

RECURSIVE ReachTypes(_, _)

ReachTypes(S, n) ==
  IF n = 0 THEN S
  ELSE ReachTypes(S \cup UNION {TypeSuccessors(t) : t \in S}, n - 1)

\* the declarations of the symbol graph under a root type
GraphDeclarations(t) ==
  UNION {Range(Sym[Type[x].symbol].declarations) :
           x \in {y \in ReachTypes({t}, Cardinality(Types)) :
                    Type[y].symbol # NoSym}}

RootType == roots[Len(roots)].arg

ActiveConverts == Cardinality({k \in 1..Len(stack) : stack[k].kind = "convert"})

(***************************************************************************)
(* C1: within one run every symbol has at most one Declaration Node        *)
(* registered against it, and any two conversions of the same symbol       *)
(* yield the same Declaration Node id -- also for a literal symbol that is *)
(* converted a second time while none of its declarations is on the visit  *)
(* stack.                                                                  *)
(***************************************************************************)
\* C1: one registered node per symbol, one node id per converted symbol
C1_SingleRegistration ==
  /\ \A a, b \in DOMAIN nodes :
       (nodes[a].symbol # NoSym /\ nodes[a].symbol = nodes[b].symbol) => a = b
  /\ \A c, e \in Calls :
       (/\ c.frame.kind = "convert" /\ e.frame.kind = "convert"
        /\ c.frame.symbol = e.frame.symbol
        /\ c.ret.tag = "ReflectionType" /\ e.ret.tag = "ReflectionType")
       => c.ret.declaration = e.ret.declaration

C2_DepthBound ==
  stack # <<>> =>
    /\ ActiveConverts <= Cardinality(Range(visitStack)) + 1
    /\ Cardinality(Range(visitStack)) = Len(visitStack)
    /\ Range(visitStack) \subseteq GraphDeclarations(RootType)

\* C2: a finished conversion of A or B from outside the cycle created
\* exactly one node for A and one for B
C2_OneNodeEach ==
  \A c \in Calls :
    (/\ c.frame.kind = "ref" /\ c.frame.type \in {"tA", "tB"}
     /\ c.frame.at.visitStack = <<>>)
    => \A s \in {"A", "B"} :
         Cardinality({n \in CreatedBetween(c.frame.at.nextId, c.nextId) :
                        nodes[n].symbol = s}) = 1

SelfLiteralCalls ==
  {c \in Calls : /\ c.frame.kind = "convert" /\ c.frame.symbol = "TL"
                 /\ c.ret.tag = "ReflectionType"}

OneNodeFor(c) ==
  {n \in CreatedBetween(c.frame.at.nextId, c.nextId) :
     nodes[n].symbol = c.frame.symbol} = {c.ret.declaration}

SelfMembers(c) ==
  {m \in DOMAIN nodes : nodes[m].parent = c.ret.declaration /\ nodes[m].name = "self"}

\* C3, as specified: the reference of `self` targets the literal's own node
C3_SelfReferenceTargetsItself ==
  \A c \in SelfLiteralCalls :
    /\ OneNodeFor(c)
    /\ \E m \in SelfMembers(c) :
         /\ nodes[m].type.tag = "Reference"
         /\ nodes[m].type.resolved
         /\ nodes[m].type.target = c.ret.declaration

\* C3, what holds: the declaration on the visit stack is a TypeLiteral, so the
\* reference targets the symbol of its parent declaration, the named T:
\* resolved to T's node when T was registered before, pending otherwise,
\* and never the literal's own node
C3_SelfReferenceTargetsParentSymbol ==
  \A c \in SelfLiteralCalls :
    /\ OneNodeFor(c)
    /\ Cardinality(SelfMembers(c)) = 1
    /\ nodes[c.ret.declaration].children = <<CHOOSE m \in SelfMembers(c) : TRUE>>
    /\ \A m \in SelfMembers(c) :
         /\ nodes[m].type.tag = "Reference"
         /\ nodes[m].type.symbol = "T"
         /\ nodes[m].type.target # c.ret.declaration
         /\ nodes[m].type.resolved =
              (registry["T"] # NoId /\ registry["T"] < c.frame.at.nextId)
         /\ nodes[m].type.target =
              (IF nodes[m].type.resolved THEN registry["T"] ELSE NoId)
         /\ ~nodes[m].type.hasTypeArguments

\* C3: the literal was converted after T was registered
C3_Witness ==
  \E c \in SelfLiteralCalls : \E m \in SelfMembers(c) : nodes[m].type.resolved

(***************************************************************************)
(* C4: for a type whose symbol is absent or has zero declarations,         *)
(* convertNode and convertType return the Intrinsic 'Object' placeholder   *)
(* and create, register and announce nothing.                              *)
(***************************************************************************)
Ownerless(t) ==
  IF Type[t].symbol = NoSym THEN TRUE
  ELSE Sym[Type[t].symbol].declarations = <<>>

\* C4: an ownerless type gives 'Object' and creates and announces nothing
C4_ObjectPlaceholder ==
  \A c \in Calls :
    (c.frame.kind = "ref" /\ Ownerless(c.frame.type)) =>
      /\ c.outcome = "return"
      /\ c.ret = IntrinsicType("Object")
      /\ c.nextId = c.frame.at.nextId
      /\ c.nevents = c.frame.at.nevents

(***************************************************************************)
(* C5: every Declaration Node convert creates is announced by exactly one  *)
(* create notification carrying the node and the syntax node handed to     *)
(* convert, fired before any declaration is converted under the node; the  *)
(* cycle, Object and plain-reference paths fire none.                      *)
(***************************************************************************)
EventsFor(n) == {k \in 1..Len(events) : events[k].node = n}

AllFrames == ActiveFrames \cup {c.frame : c \in Calls}

\* C5: one notification per node of convert, with its syntax node, before
\* the declarations are converted; none on the other paths
C5_CreateNotification ==
  /\ \A n \in DOMAIN nodes :
       nodes[n].kind = "TypeLiteral" => Cardinality(EventsFor(n)) = 1
  /\ \A f \in AllFrames :
       (f.kind = "convert" /\ f.declaration # NoId) =>
         \A k \in EventsFor(f.declaration) : events[k].syntax = f.node
  /\ \A f \in AllFrames :
       f.kind = "decl" =>
         \E k \in EventsFor(f.at.scope) : k <= f.at.nevents
  /\ \A c \in Calls :
       (\/ c.frame.kind = "convert" /\ c.frame.declaration = NoId
        \/ c.frame.kind = "ref" /\ Type[c.frame.type].symbol = NoSym
        \/ c.frame.kind = "ref" /\ c.frame.pc = "plain")
       => c.nevents = c.frame.at.nevents

\* C5: a literal reached through convertNode was created and a declaration
\* of it converted under the node
C5_Witness ==
  \E c \in Calls : \E g \in Calls :
    /\ c.frame.kind = "convert" /\ c.frame.declaration # NoId
    /\ c.frame.node # NoNode
    /\ g.frame.kind = "decl" /\ g.frame.at.scope = c.frame.declaration

(***************************************************************************)
(* C6: every finished call -- returned, short-circuited by the cycle check *)
(* or left by a failure -- leaves the scope and the visit stack as it      *)
(* found them; while a symbol's declarations are converted the active      *)
(* scope is the node convert created.                                      *)
(***************************************************************************)
\* C6: scope and visit stack at the exit of every call are those at its
\* entry; declarations are converted with the new node as scope
C6_ScopeAndVisitStackPaired ==
  /\ \A c \in Calls :
       /\ c.scope = c.frame.at.scope
       /\ c.visitStack = c.frame.at.visitStack
  /\ \A k \in 1..Len(stack) :
       stack[k].kind = "decl" =>
         /\ k < Len(stack)
         /\ stack[k + 1].kind = "convert"
         /\ stack[k].at.scope = stack[k + 1].declaration
         /\ (k = 1 /\ stack[k].pc # "memwait") => scope = stack[k + 1].declaration
  /\ Idle => (scope = project /\ visitStack = <<>>)

\* C6: calls have ended by failure, by the cycle short circuit and by a
\* normal return
C6_Witness ==
  /\ \E c \in Calls : c.frame.kind = "convert" /\ c.outcome = "raise"
  /\ \E c \in Calls : /\ c.frame.kind = "convert" /\ c.outcome = "return"
                      /\ c.frame.declaration = NoId
  /\ \E c \in Calls : c.frame.kind = "convert" /\ c.ret.tag = "ReflectionType"
  /\ Idle


(***************************************************************************)
(* C7: converting a literal symbol none of whose declarations is on the    *)
(* visit stack creates exactly one synthetic Declaration Node (kind        *)
(* TypeLiteral, name '__type', parent the scope active at the call),       *)
(* converts each declaration of the symbol once, in declaration order, as  *)
(* nested members of that node, and returns a ReflectionType wrapping      *)
(* that node.                                                              *)
(***************************************************************************)
RECURSIVE MemberNamesOf(_)

\* the member names of a list of declarations, in order
MemberNamesOf(ds) ==
  IF ds = <<>> THEN <<>>
  ELSE [k \in 1..Len(Decl[Head(ds)].members) |-> Decl[Head(ds)].members[k].name]
       \o MemberNamesOf(Tail(ds))

\* the declarations converted under the node n, in the order they finished
ConvertedUnder(n) ==
  LET under(e) == e.frame.kind = "decl" /\ e.frame.at.scope = n
      calls == SelectSeq(done, under)
  IN [k \in 1..Len(calls) |-> calls[k].frame.d]

\* the finished convert calls that met no declaration on the visit stack
FreshLiteralCalls ==
  {c \in Calls :
     /\ c.frame.kind = "convert"
     /\ Range(Sym[c.frame.symbol].declarations)
          \cap Range(c.frame.at.visitStack) = {}}

\* C7: the node, its parent, the declarations converted under it and the
\* returned ReflectionType
C7_AnonymousLiteral ==
  \A c \in FreshLiteralCalls :
    LET n == c.frame.declaration IN
    /\ n \in DOMAIN nodes
    /\ nodes[n].kind = "TypeLiteral"
    /\ nodes[n].name = "__type"
    /\ nodes[n].parent = c.frame.at.scope
    /\ {x \in CreatedBetween(c.frame.at.nextId, c.nextId) :
          nodes[x].symbol = c.frame.symbol} = {n}
    /\ c.outcome = "return" =>
         /\ c.ret = [tag |-> "ReflectionType", declaration |-> n]
         /\ ConvertedUnder(n) = Sym[c.frame.symbol].declarations
         /\ [k \in 1..Len(nodes[n].children) |-> nodes[nodes[n].children[k]].name]
              = MemberNamesOf(Sym[c.frame.symbol].declarations)
         /\ \A k \in 1..Len(nodes[n].children) :
              nodes[nodes[n].children[k]].parent = n

\* C7: the literal M, of two declarations and three members, was converted
C7_Witness ==
  \E c \in FreshLiteralCalls :
    /\ c.frame.symbol = "M"
    /\ c.outcome = "return"
    /\ Len(nodes[c.frame.declaration].children) = 3

(***************************************************************************)
(* C8: the Declaration Nodes form a pure tree: every node except the root, *)
(* the synthetic type-literal nodes of convert included, has exactly one   *)
(* parent and appears exactly once in that parent's children.              *)
(***************************************************************************)
Occurrences(p, n) ==
  Cardinality({k \in 1..Len(nodes[p].children) : nodes[p].children[k] = n})

\* C8: every node but the root occurs once in its parent's children and in
\* no other node's
C8_PureTree ==
  \A n \in DOMAIN nodes \ {project} :
    /\ nodes[n].parent \in DOMAIN nodes
    /\ Occurrences(nodes[n].parent, n) = 1
    /\ \A p \in DOMAIN nodes \ {nodes[n].parent} : Occurrences(p, n) = 0

(***************************************************************************)
(* C9: for a type whose symbol is present and not flagged as a literal,    *)
(* convertNode and convertType return the Reference Type Node of Reference *)
(* Resolution for that symbol; its type arguments are the conversions of   *)
(* the source's arguments (the syntax node's for convertNode, the type's   *)
(* for convertType), in order, and are left unset when there are none.     *)
(***************************************************************************)
NamedReferenceCalls ==
  {c \in Calls :
     /\ c.frame.kind = "ref"
     /\ Type[c.frame.type].symbol # NoSym
     /\ Sym[Type[c.frame.type].symbol].flags
          \cap {"TypeLiteral", "ObjectLiteral"} = {}}

\* v is a conversion of the source argument a made during the call c
ConversionOf(v, a, c) ==
  IF "ObjectType" \notin Type[a].flags
    THEN v = DefaultConversion(a)
  ELSE IF Type[a].symbol = NoSym
    THEN v = [tag |-> "Intrinsic", name |-> "Object"]
  ELSE IF Sym[Type[a].symbol].flags \cap {"TypeLiteral", "ObjectLiteral"} # {}
    THEN \/ /\ v.tag = "ReflectionType"
            /\ v.declaration \in CreatedBetween(c.frame.at.nextId, c.nextId)
            /\ nodes[v.declaration].symbol = Type[a].symbol
         \/ v.tag = "Reference"
  ELSE v.tag = "Reference" /\ v.symbol = Type[a].symbol

\* C9: the reference of a named symbol and its type arguments
C9_NamedReference ==
  \A c \in NamedReferenceCalls :
    LET t == c.frame.type
        sym == Type[t].symbol
        has == IF c.frame.via = "node" THEN Type[t].hasNodeArguments
                                       ELSE Type[t].hasTypeArguments
        args == IF c.frame.via = "node" THEN Type[t].nodeArguments
                                        ELSE Type[t].typeArguments
        known == registry[sym] # NoId /\ registry[sym] < c.frame.at.nextId
    IN /\ c.outcome = "return"
       /\ c.ret.tag = "Reference"
       /\ c.ret.symbol = sym
       /\ c.ret.resolved = known
       /\ c.ret.target = (IF known THEN registry[sym] ELSE NoId)
       /\ has => /\ c.ret.hasTypeArguments
                 /\ Len(c.ret.typeArguments) = Len(args)
                 /\ \A k \in 1..Len(args) :
                      ConversionOf(c.ret.typeArguments[k], args[k], c)
       /\ ~has => /\ ~c.ret.hasTypeArguments
                  /\ c.ret.typeArguments = <<>>

\* C9: Bar<Foo> was converted from its syntax node (one argument) and from
\* its type (two), and Foo without arguments
C9_Witness ==
  /\ \E c \in NamedReferenceCalls :
       /\ c.frame.type = "tBarFoo" /\ c.frame.via = "node"
       /\ Len(c.ret.typeArguments) = 1
  /\ \E c \in NamedReferenceCalls :
       /\ c.frame.type = "tBarFoo" /\ c.frame.via = "type"
       /\ Len(c.ret.typeArguments) = 2
  /\ \E c \in NamedReferenceCalls :
       c.frame.type = "tFoo" /\ ~c.ret.hasTypeArguments

(***************************************************************************)
(* C10: conversion is deterministic: the same operations on the same       *)
(* symbol graph from two fresh Contexts yield the same tree (kinds, names, *)
(* children order, kinds of the returned Type Nodes) whatever ids the      *)
(* nodes are allocated.                                                    *)
(***************************************************************************)
\* C10: a run that repeated the operations of the run before it has the
\* same id-free result
C10_Deterministic ==
  (run > 1 /\ Idle /\ roots = prev.roots) => CanonRun = prev.canon

\* C10: a second run, on other ids, repeated a run that built a literal
C10_Witness ==
  /\ run > 1
  /\ Idle
  /\ roots = prev.roots
  /\ Len(roots) = MaxRoots
  /\ project # 1
  /\ \E n \in DOMAIN nodes : nodes[n].kind = "TypeLiteral" /\ nodes[n].children # <<>>

(***************************************************************************)
(* C11: supportsNode and supportsType answer true exactly for the types of *)
(* the object-type category; they agree on every type, and the answer      *)
(* depends neither on the Context nor on the syntax node.                  *)
(***************************************************************************)
\* the syntax nodes a type may be presented with: its own, or none
NodesOf(t) == {t, NoNode}

\* C11: in every reachable Context, for every type and syntax node, both
\* predicates give the object-type flag of the type
C11_SupportsObjectTypes ==
  \A t \in Types :
    /\ \A n \in NodesOf(t) :
         supportsNode(Context, n, t) = ("ObjectType" \in Type[t].flags)
    /\ supportsType(Context, t) = ("ObjectType" \in Type[t].flags)
    /\ \A n \in NodesOf(t) : supportsNode(Context, n, t) = supportsType(Context, t)

\* C11: inside a declaration (visit stack and scope not the initial ones)
\* a member of an object type was accepted and a string member was refused
C11_Witness ==
  /\ \E c \in Calls :
       /\ c.frame.kind = "ref"
       /\ c.frame.at.visitStack # <<>>
       /\ c.frame.at.scope # project
  /\ \E n \in DOMAIN nodes :
       nodes[n].kind = "Property" /\ nodes[n].type = DefaultConversion("tStr")
  /\ visitStack # <<>>

(***************************************************************************)
(* C12: a convert call for a symbol that has a declaration on the visit    *)
(* stack returns a Reference Type Node and changes nothing else: no        *)
(* Declaration Node, no registration, no create notification, no           *)
(* declaration of the symbol converted again, the scope untouched.         *)
(***************************************************************************)
\* the finished convert calls entered with a declaration of their symbol on
\* the visit stack
CycleCalls ==
  {c \in Calls :
     /\ c.frame.kind = "convert"
     /\ Range(Sym[c.frame.symbol].declarations)
          \cap Range(c.frame.at.visitStack) # {}}

\* C12: the short circuit returns a reference and leaves the nodes, the
\* registry, the notifications, the scope and the visit stack as they were;
\* no declaration is on the visit stack twice
C12_ShortCircuitFrame ==
  /\ \A c \in CycleCalls :
       /\ c.outcome = "return"
       /\ c.ret.tag = "Reference"
       /\ c.frame.declaration = NoId
       /\ c.frame.pc = "check"
       /\ c.nextId = c.frame.at.nextId
       /\ c.registry = c.frame.at.registry
       /\ c.nevents = c.frame.at.nevents
       /\ c.scope = c.frame.at.scope
       /\ c.visitStack = c.frame.at.visitStack
  /\ \A f \in ActiveFrames :
       (f.kind = "convert" /\ f.pc = "each") =>
         Range(Sym[f.symbol].declarations) \cap Range(f.at.visitStack) = {}
  /\ Cardinality(Range(visitStack)) = Len(visitStack)

\* C12: a short circuit happened under a member of a registered literal,
\* with earlier notifications fired
C12_Witness ==
  \E c \in CycleCalls :
    /\ c.ret.tag = "Reference"
    /\ c.frame.at.scope # project
    /\ c.frame.at.registry[c.frame.symbol] # NoId
    /\ c.frame.at.nevents > 0

(***************************************************************************)
(* C13: the target of a short-circuited self-reference is decided by the   *)
(* first declaration of the symbol, in declaration order, that is on the   *)
(* visit stack: the symbol of its parent when its kind is TypeLiteral or   *)
(* ObjectLiteralExpression, its own symbol otherwise.                      *)
(***************************************************************************)
\* the first declaration of the symbol of c, in declaration order, that was
\* on the visit stack when c was entered
FirstVisited(c) ==
  LET ds == Sym[c.frame.symbol].declarations
      on == {k \in 1..Len(ds) : ds[k] \in Range(c.frame.at.visitStack)}
  IN ds[CHOOSE k \in on : \A j \in on : k <= j]

ExpectedTarget(d) ==
  CASE Decl[d].kind \in {"TypeLiteral", "ObjectLiteralExpression"}
         -> Decl[Decl[d].parent].symbol
    [] OTHER -> Decl[d].symbol

CreatorsOf(n) == {f \in AllFrames : f.kind = "convert" /\ f.declaration = n}

\* C14: for every declaration converted under a synthetic node, the
\* registry, at its entry and now, maps the node's symbol to that node; a
\* short-circuited conversion of a symbol is resolved to a node of it
C14_RegisteredBeforeRecursion ==
  /\ \A f \in AllFrames :
       f.kind = "decl" =>
         /\ f.at.registry[Decl[f.d].symbol] = f.at.scope
         /\ registry[Decl[f.d].symbol] = f.at.scope
  /\ \A c \in CycleCalls :
       /\ c.ret.resolved
       /\ c.ret.target \in DOMAIN nodes
       /\ nodes[c.ret.target].symbol = c.frame.symbol

\* C14, the ordering alone: when the conversion of a declaration starts,
\* the node it is converted under has been handed to registerReflection
\* with the declaration's symbol, so the symbol is registered
C14_RegistrationPrecedes ==
  \A f \in AllFrames :
    f.kind = "decl" =>
      /\ f.at.scope \in DOMAIN nodes
      /\ nodes[f.at.scope].symbol = Decl[f.d].symbol
      /\ CreatorsOf(f.at.scope) # {}
      /\ f.at.registry[Decl[f.d].symbol] # NoId

(***************************************************************************)
(* C15: convertNode and convertType are equivalent up to the source of the *)
(* type arguments: for the same type they take the same one of the three   *)
(* outcomes, the literal flags come before the type arguments, and they    *)
(* differ only in where the type arguments are read and in the syntax node *)
(* handed to the create notification.                                      *)
(***************************************************************************)
\* the finished calls of convertNode / convertType that returned
ReturnedRefCalls ==
  {c \in Calls : c.frame.kind = "ref" /\ c.outcome = "return"}

\* the outcome a finished call took, from where it returned
OutcomeOf(c) ==
  CASE c.frame.pc = "start" -> "object"
    [] c.frame.pc = "lit" -> "literal"
    [] OTHER -> "reference"

\* the outcome the type calls for, whatever the entry point
OutcomeFor(t) ==
  IF Type[t].symbol = NoSym THEN "object"
  ELSE IF Sym[Type[t].symbol].flags \cap {"TypeLiteral", "ObjectLiteral"} # {}
    THEN "literal"
    ELSE "reference"

\* the convert calls a literal outcome of c delegated to
DelegatedBy(c) ==
  {g \in Calls : /\ g.frame.kind = "convert"
                  /\ g.frame.at = c.frame.at
                  /\ g.frame.symbol = Type[c.frame.type].symbol}

\* C15: each entry point takes the outcome its type calls for; a literal
\* symbol never gets a reference with type arguments; two calls of the two
\* entry points on one type, entered with the same visit stack, return
\* Type Nodes that differ in their type arguments only; convertNode hands
\* its syntax node to convert, convertType none
C15_EntryPointsEquivalent ==
  /\ \A c \in ReturnedRefCalls :
       /\ OutcomeOf(c) = OutcomeFor(c.frame.type)
       /\ OutcomeFor(c.frame.type) = "literal" =>
            /\ ~(c.ret.tag = "Reference" /\ c.ret.hasTypeArguments)
            /\ DelegatedBy(c) # {}
            /\ \A g \in DelegatedBy(c) :
                 /\ g.ret = c.ret
                 /\ g.frame.node =
                      (IF c.frame.via = "node" THEN c.frame.type ELSE NoNode)
       /\ OutcomeFor(c.frame.type) = "reference" =>
            Len(c.ret.typeArguments) =
              (IF c.frame.via = "node" THEN Len(Type[c.frame.type].nodeArguments)
                                       ELSE Len(Type[c.frame.type].typeArguments))
  /\ \A c, e \in ReturnedRefCalls :
       (/\ c.frame.via = "node" /\ e.frame.via = "type"
        /\ c.frame.type = e.frame.type
        /\ c.frame.at.visitStack = e.frame.at.visitStack) =>
         /\ OutcomeOf(c) = OutcomeOf(e)
         /\ c.ret.tag = e.ret.tag
         /\ c.ret.tag = "Intrinsic" => c.ret = e.ret
         /\ c.ret.tag = "Reference" =>
              /\ c.ret.symbol = e.ret.symbol
              /\ (c.frame.at.registry[c.ret.symbol] = e.frame.at.registry[e.ret.symbol])
                   => (c.ret.resolved = e.ret.resolved /\ c.ret.target = e.ret.target)

\* C15: the literal TL, whose type carries a type argument, was converted
\* through both entry points
C15_Witness ==
  \E c, e \in ReturnedRefCalls :
    /\ c.frame.via = "node" /\ e.frame.via = "type"
    /\ c.frame.type = "tTL" /\ e.frame.type = "tTL"
    /\ Type["tTL"].hasTypeArguments
    /\ c.ret.tag = "ReflectionType" /\ e.ret.tag = "ReflectionType"

(***************************************************************************)
(* What the Accordion properties speak about                               *)
(***************************************************************************)
InFlight(a) == accs[a].animation.running

AccIdle(a) == accs[a].built /\ ~InFlight(a)

Stored(a) == storage[accKey[a]]

\* no other accordion of the page has the key of a
OwnKey(a) == \A b \in Accordions \ {a} : accKey[b] # accKey[a]

(***************************************************************************)
(* C16: an Accordion has at most one height animation in flight; a click   *)
(* that arrives while one is in flight starts no second animation and      *)
(* leaves the open state and the stored value unchanged until the running  *)
(* animation finishes.                                                     *)
(***************************************************************************)
\* the animations of a started and not finished: none or one
OneInFlight(a) ==
  /\ accs[a].started - accs[a].finished \in {0, 1}
  /\ InFlight(a) <=> (accs[a].started = accs[a].finished + 1)

\* a click while an animation is in flight leaves the animation alone
ClickInFlightKeepsAnimation(a) ==
  (Click(a) /\ InFlight(a)) =>
    /\ accs'[a].animation = accs[a].animation
    /\ accs'[a].started = accs[a].started

\* a click while an animation is in flight leaves the open state and the
\* stored value alone
ClickInFlightKeepsState(a) ==
  (Click(a) /\ InFlight(a)) =>
    /\ accs'[a].open = accs[a].open
    /\ storage' = storage

\* C16: one animation at most, and a click in flight changes neither the
\* animation nor the open state nor the stored value
C16_OneAnimationInFlight ==
  /\ [](\A a \in Accordions : OneInFlight(a))
  /\ [][\A a \in Accordions : ClickInFlightKeepsAnimation(a)]_allVars
  /\ [][\A a \in Accordions : ClickInFlightKeepsState(a)]_allVars

\* C16, the part that holds: one animation at most; a click in flight
\* changes neither the animation nor the stored value
C16_NoSecondAnimation ==
  /\ [](\A a \in Accordions : OneInFlight(a))
  /\ [][\A a \in Accordions : ClickInFlightKeepsAnimation(a)]_allVars
  /\ [][\A a \in Accordions :
          (Click(a) /\ InFlight(a)) => storage' = storage]_allVars

(***************************************************************************)
(* C17: for an Accordion whose storage key no one else writes, whenever no *)
(* animation is in flight after the constructor's animation has finished,  *)
(* the stored value equals the element's open state, and that state is the *)
(* direction of the last animation that finished.                          *)
(***************************************************************************)
\* C17: idle, with a key of its own: stored value, open state and last
\* finished direction agree
C17_StoredEqualsOpen ==
  \A a \in Accordions :
    (OwnKey(a) /\ AccIdle(a)) =>
      /\ accs[a].finished >= 1
      /\ Stored(a) = (IF accs[a].open THEN "true" ELSE "false")
      /\ accs[a].last = (IF accs[a].open THEN "opening" ELSE "closing")

\* C17: an accordion with a key of its own is idle and open after two
\* clicks, each animation finished
C17_Witness ==
  \E a \in Accordions :
    /\ OwnKey(a)
    /\ AccIdle(a)
    /\ accs[a].finished = 3
    /\ accs[a].open
    /\ Stored(a) = "true"

(***************************************************************************)
(* C18: a click on an idle Accordion starts exactly one animation toward   *)
(* the opposite open state; once its finish event is delivered the         *)
(* accordion is idle again with the open state toggled and persisted, and  *)
(* finishing starts no further animation.                                  *)
(***************************************************************************)
\* a click on an idle accordion starts one animation, away from the state
\* the element is in
ClickIdleStartsOne(a) ==
  (Click(a) /\ AccIdle(a)) =>
    /\ accs'[a].animation = Animation(~accs[a].open, 300)
    /\ accs'[a].started = accs[a].started + 1

\* the finish of an animation leaves the accordion idle
FinishStartsNone(a) ==
  Finish(a) =>
    /\ ~accs'[a].animation.running
    /\ accs'[a].started = accs[a].started

\* the animation a click started on a, toward d, is running
ClickedToward(a, d) ==
  /\ InFlight(a)
  /\ accs[a].cause = "click"
  /\ accs[a].animation.opening = d

\* a is idle in the state d, away from the state the click found, and d is
\* the stored value
ToggledTo(a, d) ==
  /\ AccIdle(a)
  /\ accs[a].open = d
  /\ accs[a].before = ~d
  /\ Stored(a) = (IF d THEN "true" ELSE "false")

\* C18: one animation per click on an idle accordion, toward the opposite
\* state; it ends with the state toggled and persisted, and its end starts
\* no animation
C18_ClickToggles ==
  /\ [][\A a \in Accordions : ClickIdleStartsOne(a)]_allVars
  /\ [][\A a \in Accordions : FinishStartsNone(a)]_allVars
  /\ \A a \in Accordions : \A d \in BOOLEAN :
       ClickedToward(a, d) ~> ToggledTo(a, d)

\* C18: an open accordion was clicked when idle and is idle again, closed,
\* with the closed state stored
C18_Witness ==
  \E a \in Accordions :
    /\ AccIdle(a)
    /\ accs[a].finished = 2
    /\ accs[a].before
    /\ ~accs[a].open
    /\ Stored(a) = "false"
    /\ clicks >= 1

====
